---- MODULE Spec2Model ----
(***************************************************************************)
(* A model of the single-domain crawler (src/src/crawler.py), the scraper  *)
(* and its JSON persistence (src/src/scrapper.py) and the URL helpers      *)
(* (src/src/utils.py).                                                     *)
(*                                                                         *)
(* A URL string is a sequence of strings: u[1] is the scheme, u[2] the     *)
(* netloc and the rest are the characters that follow the netloc, one per  *)
(* element ("/", "a", ";", "?", "#").  A URL whose tail is empty or begins *)
(* with "/", "?" or "#" corresponds to exactly one Python string           *)
(* scheme://netloc<tail>, so equality of these sequences is equality of    *)
(* the strings.                                                            *)
(***************************************************************************)
EXTENDS Integers, Sequences, FiniteSets, TLC

VARIABLES
    \* the file system
    disk,               \* path -> [exists, bytes]: the files under data/
    \* WebScraper
    pc,                 \* position of the one control flow of a session
    start_url,          \* WebScraper.start_url
    domain,             \* WebScraper.domain = Crawler.domain
    data,               \* WebScraper.data, the ScrapedDataSet
    page_count,         \* WebScraper.page_count
    scraper_skipped,    \* WebScraper.skipped_duplicates
    data_lock,          \* WebScraper.data_lock: "free" or "held"
    processed_urls,     \* run's local processed_urls
    timed_out,          \* whether time.time() - start_time > timeout by now
    save_ret,           \* the call site save_to_json returns to
    \* Crawler
    visited,            \* Crawler.visited
    queue,              \* Crawler.queue
    pages_crawled,      \* Crawler.pages_crawled
    skipped_duplicates, \* Crawler.skipped_duplicates
    robots,             \* Crawler.robots_parser: [last_checked, rules]
    max_pages,          \* Crawler.max_pages
    attempt,            \* crawl's loop variable attempt
    cur_url,            \* crawl's local url
    fetch_result,       \* the tuple crawl yielded last
    \* history, read by the properties only
    robots_status,      \* how the robots.txt request ended
    emitted,            \* the FetchResults yielded so far
    dequeued,           \* the URLs popped from the queue so far
    loaded_len,         \* len(data) after load_existing_data
    json_before,        \* the durable file when the session last began a save
    save_status,        \* how the last save_to_json ended
    downloads,          \* the image URLs download_image was called with
    scraped,            \* the URLs of the FetchResults given to scrape_page
    signal,             \* the exception that ended run's loop, if any
    saved_len,          \* len(data) at the last call of save_to_json, -1 before
    \* the normalize_url driver
    nu_pc,      \* position of the normalize_url driver
    nu_in,      \* URL handed to normalize_url
    nu_once,    \* normalize_url(nu_in)
    nu_twice,   \* normalize_url(normalize_url(nu_in))
    nu_variant, \* a URL that differs from nu_in by its fragment or a trailing slash
    nu_variant_once,    \* normalize_url(nu_variant)
    \* the is_valid_url driver
    iv_pc,      \* position of the is_valid_url driver
    iv_url,     \* URL handed to is_valid_url
    iv_domain,  \* domain handed to is_valid_url
    iv_result,  \* how the call ended: [raised, value]
    \* the entry point, main_coventry.py
    all_data,   \* __main__'s all_data
    seed_idx,   \* the index in seed_links of the session at hand, 0 without a batch
    \* history of the batch
    disk0,      \* the durable file when the process started
    batch_new   \* the PageRecords the sessions ended so far have appended

normVars == <<nu_pc, nu_in, nu_once, nu_twice, nu_variant, nu_variant_once>>

validVars == <<iv_pc, iv_url, iv_domain, iv_result>>

pureVars == <<normVars, validVars>>

scraperVars == <<start_url, domain, data, page_count, scraper_skipped, data_lock,
                 processed_urls, timed_out, save_ret>>

crawlerVars == <<visited, queue, pages_crawled, skipped_duplicates, robots,
                 max_pages, attempt, cur_url, fetch_result>>

\* the history that only Consume, the save and the exceptions write
lateHistory == <<downloads, scraped, signal, saved_len>>

historyVars == <<robots_status, emitted, dequeued, loaded_len, json_before,
                 save_status, lateHistory>>

batchVars == <<all_data, seed_idx, disk0, batch_new>>

sessionVars == <<disk, pc, scraperVars, crawlerVars, historyVars, batchVars>>

vars == <<sessionVars, pureVars>>

----------------------------------------------------------------------------
(* Bounds *)

\* longest tail (characters after the netloc) of a URL given to normalize_url
MaxTail == 4

\* longest FetchResult stream handed to run on its own
MaxStream == 3

----------------------------------------------------------------------------
(* Sequence helpers: the str methods the code uses *)

\* F applied to the value of v, v evaluated once (a local variable of the code)
With(v, F(_)) == CHOOSE r \in {F(x) : x \in {v}} : TRUE

\* str.find(c, from): least index i >= from with s[i] = c, 0 when there is none
Find(s, c, from) ==
    With({i \in from..Len(s) : s[i] = c}, LAMBDA hits :
    IF hits = {} THEN 0 ELSE CHOOSE i \in hits : \A j \in hits : i <= j)

\* str.rfind(c): greatest index i with s[i] = c, 0 when there is none
RFind(s, c) ==
    With({i \in 1..Len(s) : s[i] = c}, LAMBDA hits :
    IF hits = {} THEN 0 ELSE CHOOSE i \in hits : \A j \in hits : i >= j)

\* c in s
Has(s, c) == \E i \in 1..Len(s) : s[i] = c

\* s.rstrip(c): s without its trailing run of c
RStrip(s, c) ==
    With({i \in 1..Len(s) : s[i] # c}, LAMBDA keep :
    SubSeq(s, 1, IF keep = {} THEN 0 ELSE CHOOSE i \in keep : \A j \in keep : i >= j))

\* s[i+1:] for a 1-based index i
After(s, i) == SubSeq(s, i + 1, Len(s))

\* s[:i-1] for a 1-based index i
Before(s, i) == SubSeq(s, 1, i - 1)

----------------------------------------------------------------------------
(* urllib.parse as crawler.py and utils.py use it *)

UrlTail(u) == SubSeq(u, 3, Len(u))

\* The netloc of a URL is one string of the model; what the code asks of its
\* characters is tabulated for the netlocs that hold a bracket.
\* '[' in netloc
HasOpenBracket(n) == n \in {"[::1]", "x[::1]y", "x[::1]", "[::1", "a[b]"}

\* netloc.startswith('[')
StartsWithBracket(n) == n \in {"[::1]", "[::1"}

\* netloc.endswith(']')
EndsWithBracket(n) == n \in {"[::1]", "x[::1]", "a[b]"}

\* urlsplit raises ValueError: a bracket without its partner ("Invalid IPv6
\* URL"), or brackets around something that is no IP address
urlparse_raises(u) == u[2] \in {"[::1", "a[b]"}

\* the part of t before the first c and the part after it (empty when t
\* has no c)
SplitAt(t, c) ==
    With(Find(t, c, 1), LAMBDA i :
    IF i = 0 THEN [head |-> t, tail |-> <<>>]
             ELSE [head |-> Before(t, i), tail |-> After(t, i)])

\* urlsplit: the fragment is cut at the first "#", then the query at the
\* first "?" of what precedes it
urlsplit(u) ==
    With(SplitAt(UrlTail(u), "#"), LAMBDA f :
    With(SplitAt(f.head, "?"), LAMBDA q :
    [scheme   |-> u[1],
     netloc   |-> u[2],
     path     |-> q.head,
     query    |-> q.tail,
     fragment |-> f.tail]))

\* _splitparams: the params start at the first ";" of the last path segment
splitparams(path) ==
    With(IF Has(path, "/") THEN Find(path, ";", RFind(path, "/"))
                           ELSE Find(path, ";", 1), LAMBDA i :
    IF i = 0 THEN [path |-> path, params |-> <<>>]
             ELSE [path |-> Before(path, i), params |-> After(path, i)])

\* the schemes of the model that urllib lists in uses_params
uses_params == {"http", "https", "ftp"}

\* urlparse = urlsplit, then the params split off the path
urlparse(u) ==
    With(urlsplit(u), LAMBDA s :
    With(IF s.scheme \in uses_params /\ Has(s.path, ";")
         THEN splitparams(s.path)
         ELSE [path |-> s.path, params |-> <<>>], LAMBDA pp :
    [scheme |-> s.scheme, netloc |-> s.netloc, path |-> pp.path,
     params |-> pp.params, query |-> s.query, fragment |-> s.fragment]))

\* urlunparse (and the urlunsplit it ends in) for a non-empty netloc: empty
\* params, query and fragment lose their delimiter
urlunparse(scheme, netloc, path, params, query, fragment) ==
    With(IF params # <<>> THEN path \o <<";">> \o params ELSE path, LAMBDA url1 :
    With(IF url1 # <<>> /\ url1[1] # "/" THEN <<"/">> \o url1 ELSE url1, LAMBDA url2 :
    <<scheme, netloc>> \o url2
        \o (IF query # <<>> THEN <<"?">> \o query ELSE <<>>)
        \o (IF fragment # <<>> THEN <<"#">> \o fragment ELSE <<>>)))

\* Crawler.normalize_url
normalize_url(url) ==
    With(urlparse(url), LAMBDA parsed :
    urlunparse(parsed.scheme, parsed.netloc, RStrip(parsed.path, "/"),
               parsed.params, parsed.query, <<>>))

----------------------------------------------------------------------------
(* The URLs, pages and robots files of the model *)

Host == "example.org"

UrlA      == <<"https", Host, "/", "a">>
UrlASlash == <<"https", Host, "/", "a", "/">>
UrlASemi  == <<"https", Host, "/", "a", ";", "/">>
UrlAFrag  == <<"https", Host, "/", "a", "#", "f">>
UrlB      == <<"https", Host, "/", "b">>
UrlBSlash == <<"https", Host, "/", "b", "/">>
UrlOther  == <<"https", "other.org", "/", "c">>
UrlFtp    == <<"ftp", Host, "/", "d">>
Mailto    == <<"mailto", "", "x">>
ImgSame   == <<"https", Host, "/", "i">>
ImgOther  == <<"https", "cdn.other.org", "/", "x">>

NoUrl == <<>>

\* the seed URLs a session is started with
StartUrls == {UrlA, UrlASlash, UrlASemi}

\* the href lists of the anchors of a fetched page
LinkLists ==
    { <<>>,
      <<UrlAFrag, UrlB>>,
      <<UrlB, UrlBSlash>>,
      <<Mailto, UrlOther, UrlFtp>>,
      <<UrlBSlash, UrlA>> }

\* what scrape_page reads of a response: Content-Type, title, text, img tags
Bodies ==
    { [html |-> TRUE,  title |-> <<"T">>, text |-> <<"txt">>, imgs |-> <<>>],
      [html |-> FALSE, title |-> <<"T">>, text |-> <<"txt">>, imgs |-> <<>>],
      [html |-> TRUE,  title |-> <<"T">>, text |-> <<>>,      imgs |-> <<>>],
      [html |-> TRUE,  title |-> <<>>,    text |-> <<"txt">>, imgs |-> <<ImgSame>>],
      [html |-> TRUE,  title |-> <<"T">>, text |-> <<"txt">>, imgs |-> <<ImgOther, ImgSame>>] }

\* a text/html page with a title, text and no img tag
PlainBody == [html |-> TRUE, title |-> <<"T">>, text |-> <<"txt">>, imgs |-> <<>>]

\* the fetched pages: every link list on the plain body, every body without
\* links (the crawler reads the links only, the scraper the body only)
Pages ==
    {[links |-> l, body |-> PlainBody] : l \in LinkLists}
    \cup {[links |-> <<>>, body |-> b] : b \in Bodies}

NoPage == [links |-> <<>>,
           body |-> [html |-> FALSE, title |-> <<>>, text |-> <<>>, imgs |-> <<>>]]

NoResult == [url |-> NoUrl, has |-> FALSE, page |-> NoPage]

\* the rule lines of a robots.txt for user-agent *
RobotsFiles ==
    { <<>>,
      << [path |-> <<"/", "b">>, allowance |-> FALSE] >> }

----------------------------------------------------------------------------
(* utils.py *)

\* is_valid_url without its netloc test
is_valid_url_anyhost(url, dom) ==
    IF urlparse_raises(url) THEN [raised |-> FALSE, value |-> FALSE]
    ELSE [raised |-> FALSE, value |-> urlparse(url).scheme \in {"http", "https"}]

\* is_valid_url, as the way the call ends: the value returned, or an
\* exception leaving it.  The ValueError of urlparse is caught and answered
\* with False; then the scheme, the netloc and the bracket test decide.
is_valid_url_result(url, dom) ==
    IF urlparse_raises(url) THEN [raised |-> FALSE, value |-> FALSE]
    ELSE With(urlparse(url), LAMBDA parsed :
         [raised |-> FALSE,
          value  |-> /\ parsed.scheme \in {"http", "https"}
                     /\ parsed.netloc = dom
                     /\ ~(/\ HasOpenBracket(parsed.netloc)
                          /\ ~StartsWithBracket(parsed.netloc)
                          /\ ~EndsWithBracket(parsed.netloc))])

\* a test that accepts every URL
is_valid_url_always(url, dom) == TRUE

\* the value is_valid_url returns
is_valid_url(url, dom) == is_valid_url_result(url, dom).value

----------------------------------------------------------------------------
(* Crawler: robots.txt *)

\* s.startswith(prefix)
StartsWith(s, prefix) ==
    /\ Len(prefix) <= Len(s)
    /\ SubSeq(s, 1, Len(prefix)) = prefix

\* RobotFileParser after _init_robots_parser: parse() is called, and with it
\* modified() sets last_checked, only for a 200 answer
init_robots_parser(status, rules) ==
    IF status = "200"
    THEN [last_checked |-> TRUE,  rules |-> rules]
    ELSE [last_checked |-> FALSE, rules |-> <<>>]

\* the path RobotFileParser.can_fetch matches the rule lines against
RobotsPath(url) ==
    With(urlparse(url), LAMBDA parsed :
    With(UrlTail(urlunparse(parsed.scheme, parsed.netloc, parsed.path,
                            parsed.params, parsed.query, parsed.fragment)),
         LAMBDA t : IF t = <<>> THEN <<"/">> ELSE t))

\* Crawler.can_fetch: RobotFileParser.can_fetch("*", url); a parser that has
\* read nothing answers False, otherwise the first matching rule line decides
can_fetch(rp, url) ==
    IF ~rp.last_checked THEN FALSE
    ELSE With(RobotsPath(url), LAMBDA p :
         With({i \in 1..Len(rp.rules) : StartsWith(p, rp.rules[i].path)}, LAMBDA hits :
         IF hits = {} THEN TRUE
         ELSE rp.rules[CHOOSE i \in hits : \A j \in hits : i <= j].allowance))

----------------------------------------------------------------------------
(* Crawler: link extraction *)

\* href.startswith(('javascript:', 'mailto:', 'tel:', 'data:', '#'))
IsPseudoHref(href) ==
    \/ href[1] \in {"javascript", "mailto", "tel", "data"}
    \/ (href[1] = "" /\ Len(href) >= 3 /\ href[3] = "#")

\* urljoin(url, href) for an absolute href: the href itself when its scheme
\* is not the page's, otherwise the href put together again
urljoin(url, href) ==
    With(urlparse(href), LAMBDA parsed :
    IF parsed.scheme # urlparse(url).scheme THEN href
    ELSE urlunparse(parsed.scheme, parsed.netloc, parsed.path,
                    parsed.params, parsed.query, parsed.fragment))

\* a membership test that always answers "not there"
NeverInVisited(n, vis) == FALSE

\* normalized in self.visited
InVisited(n, vis) == n \in vis

\* one turn of get_links's loop; st = [links, visited, skipped]
get_links_step(url, href, st, dom, rp) ==
    IF IsPseudoHref(href) THEN st
    ELSE With(urljoin(url, href), LAMBDA full_url :
         With(normalize_url(full_url), LAMBDA normalized_full_url :
         IF ~is_valid_url(full_url, dom) THEN st
         ELSE IF InVisited(normalized_full_url, st.visited)
              THEN [st EXCEPT !.skipped = @ + 1]
         ELSE IF ~can_fetch(rp, full_url) THEN st
         ELSE [st EXCEPT !.links = Append(@, full_url),
                         !.visited = @ \cup {normalized_full_url}]))

\* get_links's loop over the hrefs
RECURSIVE get_links(_, _, _, _, _)
get_links(url, hrefs, st, dom, rp) ==
    IF hrefs = <<>> THEN st
    ELSE With(get_links_step(url, Head(hrefs), st, dom, rp), LAMBDA st2 :
         get_links(url, Tail(hrefs), st2, dom, rp))

\* one turn of crawl's loop over the links get_links returned;
\* st = [queue, visited, skipped]
enqueue_link(link, st) ==
    With(normalize_url(link), LAMBDA normalized_link :
    IF ~InVisited(normalized_link, st.visited)
    THEN [st EXCEPT !.queue = Append(@, link),
                    !.visited = @ \cup {normalized_link}]
    ELSE [st EXCEPT !.skipped = @ + 1])

\* crawl's loop over the links
RECURSIVE enqueue_links(_, _)
enqueue_links(links, st) ==
    IF links = <<>> THEN st
    ELSE With(enqueue_link(Head(links), st), LAMBDA st2 :
         enqueue_links(Tail(links), st2))

----------------------------------------------------------------------------
(* JSON text: a file's content is a sequence of tokens, the brackets and   *)
(* braces of the array and its objects, and each string between two        *)
(* quote tokens                                                            *)

Quote == "\""

json_str(s) == <<Quote>> \o s \o <<Quote>>

json_image(im) == <<"{">> \o json_str(im.src) \o json_str(im.filename) \o <<"}">>

RECURSIVE json_images(_)
json_images(ims) ==
    IF ims = <<>> THEN <<>> ELSE json_image(Head(ims)) \o json_images(Tail(ims))

json_record(r) ==
    <<"{">> \o json_str(r.url) \o json_str(r.title) \o json_str(r.content)
            \o <<"[">> \o json_images(r.images) \o <<"]">> \o <<"}">>

RECURSIVE json_records(_)
json_records(recs) ==
    IF recs = <<>> THEN <<>> ELSE json_record(Head(recs)) \o json_records(Tail(recs))

\* a dump that writes the records last to first
json_dump_reversed(d) ==
    LET rev == [i \in 1..Len(d) |-> d[Len(d) + 1 - i]]
    IN <<"[">> \o json_records(rev) \o <<"]">>

\* json.dump(self.data, f, ...)
json_dump(d) == <<"[">> \o json_records(d) \o <<"]">>

ParseFail == [ok |-> FALSE, val |-> <<>>, rest |-> <<>>]

\* ts begins with token t
Starts(ts, t) == ts # <<>> /\ ts[1] = t

\* a string: a quote, the characters, the closing quote
parse_str(ts) ==
    IF ~Starts(ts, Quote) THEN ParseFail
    ELSE With(Find(ts, Quote, 2), LAMBDA i :
         IF i = 0 THEN ParseFail
         ELSE [ok |-> TRUE, val |-> SubSeq(ts, 2, i - 1), rest |-> After(ts, i)])

parse_image(ts) ==
    IF ~Starts(ts, "{") THEN ParseFail
    ELSE With(parse_str(Tail(ts)), LAMBDA a :
         IF ~a.ok THEN ParseFail
         ELSE With(parse_str(a.rest), LAMBDA b :
              IF b.ok /\ Starts(b.rest, "}")
              THEN [ok |-> TRUE, val |-> [src |-> a.val, filename |-> b.val],
                    rest |-> Tail(b.rest)]
              ELSE ParseFail))

\* the elements of the images array, up to and with its "]"
RECURSIVE parse_images(_)
parse_images(ts) ==
    IF Starts(ts, "]") THEN [ok |-> TRUE, val |-> <<>>, rest |-> Tail(ts)]
    ELSE With(parse_image(ts), LAMBDA im :
         IF ~im.ok THEN ParseFail
         ELSE With(parse_images(im.rest), LAMBDA more :
              IF more.ok
              THEN [ok |-> TRUE, val |-> <<im.val>> \o more.val, rest |-> more.rest]
              ELSE ParseFail))

parse_record(ts) ==
    IF ~Starts(ts, "{") THEN ParseFail
    ELSE With(parse_str(Tail(ts)), LAMBDA u :
         IF ~u.ok THEN ParseFail
         ELSE With(parse_str(u.rest), LAMBDA t :
              IF ~t.ok THEN ParseFail
              ELSE With(parse_str(t.rest), LAMBDA c :
                   IF ~(c.ok /\ Starts(c.rest, "[")) THEN ParseFail
                   ELSE With(parse_images(Tail(c.rest)), LAMBDA ims :
                        IF ims.ok /\ Starts(ims.rest, "}")
                        THEN [ok |-> TRUE,
                              val |-> [url |-> u.val, title |-> t.val,
                                       content |-> c.val, images |-> ims.val],
                              rest |-> Tail(ims.rest)]
                        ELSE ParseFail))))

\* the elements of the top array, up to and with its "]"
RECURSIVE parse_records(_)
parse_records(ts) ==
    IF Starts(ts, "]") THEN [ok |-> TRUE, val |-> <<>>, rest |-> Tail(ts)]
    ELSE With(parse_record(ts), LAMBDA r :
         IF ~r.ok THEN ParseFail
         ELSE With(parse_records(r.rest), LAMBDA more :
              IF more.ok
              THEN [ok |-> TRUE, val |-> <<r.val>> \o more.val, rest |-> more.rest]
              ELSE ParseFail))

\* json.load(f): the array, or a JSONDecodeError (ok = FALSE) for anything
\* else, text after the array included
json_load(ts) ==
    IF ~Starts(ts, "[") THEN ParseFail
    ELSE With(parse_records(Tail(ts)), LAMBDA r :
         IF r.ok /\ r.rest = <<>> THEN r ELSE ParseFail)

----------------------------------------------------------------------------
(* The files *)

json_file == "data/scraped_data.json"

temp_file_same == json_file

\* temp_file = self.json_file + '.tmp'
temp_file == "data/scraped_data.json.tmp"

Paths == {json_file, "data/scraped_data.json.tmp"}

Absent == [exists |-> FALSE, bytes |-> <<>>]

FileOf(bytes) == [exists |-> TRUE, bytes |-> bytes]

\* a byte that is not UTF-8 text
BadByte == "0xFF"

\* the JSON text null
JsonNull == "null"

\* load_existing_data ends in an exception that its except clause
\* (json.JSONDecodeError, IOError) does not name: the UnicodeDecodeError of
\* f.read() on bytes that are not UTF-8, or the TypeError of len(self.data)
\* when the file holds null
load_raises(fs) ==
    /\ fs[json_file].exists
    /\ (Has(fs[json_file].bytes, BadByte) \/ fs[json_file].bytes = <<JsonNull>>)

\* WebScraper.load_existing_data: the value self.data gets
load_existing_data(fs) ==
    IF fs[json_file].exists
    THEN IF fs[json_file].bytes = <<>> THEN <<>>
         ELSE With(json_load(fs[json_file].bytes), LAMBDA r :
              IF r.ok THEN r.val ELSE <<>>)
    ELSE <<>>

----------------------------------------------------------------------------
(* WebScraper: scraping one FetchResult *)

\* retries = 3, in crawl, download_image and save_to_json alike
retries == 3

NoFile == <<>>

\* what one attempt of download_image can end in: the image saved, a
\* RequestException, an IOError/OSError
AttemptOutcomes == {"ok", "net", "io"}

\* download_image: None when the free space is short or all attempts fail,
\* otherwise md5(img_url) + extension ('.jpg' when the path has none)
download_image(img_url, low_space, outcomes) ==
    IF low_space THEN NoFile
    ELSE IF \E i \in 1..retries : outcomes[i] = "ok"
         THEN <<"md5">> \o img_url \o <<".jpg">>
         ELSE NoFile

\* the values download_image can return for img_url
DownloadResults(img_url) ==
    {download_image(img_url, low, o) : low \in BOOLEAN, o \in [1..retries -> AttemptOutcomes]}

\* scrape_page's loop over the img tags; got[i] is what download_image
\* returns for the i-th tag if it is called
RECURSIVE scrape_images(_, _, _, _, _)
scrape_images(url, imgs, got, i, dom) ==
    IF i > Len(imgs) THEN <<>>
    ELSE With(urljoin(url, imgs[i]), LAMBDA img_url :
         (IF is_valid_url(img_url, dom) /\ got[i] # NoFile
          THEN << [src |-> img_url, filename |-> got[i]] >>
          ELSE <<>>)
         \o scrape_images(url, imgs, got, i + 1, dom))

NoRecord == [some |-> FALSE,
             rec |-> [url |-> NoUrl, title |-> <<>>, content |-> <<>>, images |-> <<>>]]

\* a scrape_page that makes a record of whatever it is given
scrape_page_always(fr, got, dom) ==
    [some |-> TRUE,
     rec |-> [url |-> fr.url, title |-> <<"No Title">>,
              content |-> fr.page.body.text, images |-> <<>>]]

\* scrape_page: None (some = FALSE) for a failure marker, a response that is
\* not text/html or a page without text, otherwise the page's record
scrape_page(fr, got, dom) ==
    IF ~fr.has THEN NoRecord
    ELSE IF ~fr.page.body.html THEN NoRecord
    ELSE IF fr.page.body.text = <<>> THEN NoRecord
    ELSE [some |-> TRUE,
          rec |-> [url |-> fr.url,
                   title |-> IF fr.page.body.title = <<>> THEN <<"No Title">>
                             ELSE fr.page.body.title,
                   content |-> fr.page.body.text,
                   images |-> scrape_images(fr.url, fr.page.body.imgs, got, 1, dom)]]

\* the image URLs scrape_page calls download_image with: those of the img
\* tags that is_valid_url accepts
download_calls(fr, dom) ==
    IF fr.has /\ fr.page.body.html /\ fr.page.body.text # <<>>
    THEN {urljoin(fr.url, fr.page.body.imgs[i]) :
            i \in {j \in 1..Len(fr.page.body.imgs) :
                     is_valid_url(urljoin(fr.url, fr.page.body.imgs[j]), dom)}}
    ELSE {}

----------------------------------------------------------------------------
(* The state before a session is constructed *)

\* Crawler's default max_pages
DefaultMaxPages == 100

MaxPagesChoices == {0, 1, DefaultMaxPages}

\* records a previous run left in the durable file
OldRecordB == [url |-> UrlB, title |-> <<"T">>, content |-> <<"old">>,
               images |-> << [src |-> ImgSame, filename |-> <<"md5">> \o ImgSame \o <<".jpg">>] >>]
OldRecordA == [url |-> UrlA, title |-> <<"No Title">>, content |-> <<"old">>,
               images |-> <<>>]

\* the durable file at start: absent, empty, a complete array, or an array
\* cut short, bytes that are not UTF-8, the text null
DiskFiles ==
    { Absent,
      FileOf(<<>>),
      FileOf(json_dump(<<OldRecordB>>)),
      FileOf(json_dump(<<OldRecordB, OldRecordA>>)),
      FileOf(SubSeq(json_dump(<<OldRecordB, OldRecordA>>), 1, 9)),
      FileOf(<<"[", BadByte, "]">>),
      FileOf(<<JsonNull>>) }

InitSession ==
    /\ disk \in {[p \in Paths |-> IF p = json_file THEN f ELSE Absent] : f \in DiskFiles}
    /\ pc = "new"
    /\ start_url = NoUrl
    /\ domain = ""
    /\ data = <<>>
    /\ page_count = 0
    /\ scraper_skipped = 0
    /\ data_lock = "free"
    /\ processed_urls = {}
    /\ timed_out = FALSE
    /\ save_ret = "none"
    /\ visited = {}
    /\ queue = <<>>
    /\ pages_crawled = 0
    /\ skipped_duplicates = 0
    /\ robots = [last_checked |-> FALSE, rules |-> <<>>]
    /\ max_pages = DefaultMaxPages
    /\ attempt = 0
    /\ cur_url = NoUrl
    /\ fetch_result = NoResult
    /\ robots_status = "none"
    /\ emitted = <<>>
    /\ dequeued = <<>>
    /\ loaded_len = 0
    /\ json_before = disk[json_file]
    /\ save_status = "none"
    /\ downloads = {}
    /\ scraped = <<>>
    /\ signal = "none"
    /\ saved_len = -1

NoOutcome == [raised |-> FALSE, value |-> FALSE]

NormIdle ==
    /\ nu_pc = "off"
    /\ nu_in = NoUrl
    /\ nu_once = NoUrl
    /\ nu_twice = NoUrl
    /\ nu_variant = NoUrl
    /\ nu_variant_once = NoUrl

ValidIdle ==
    /\ iv_pc = "off"
    /\ iv_url = NoUrl
    /\ iv_domain = ""
    /\ iv_result = NoOutcome

PureIdle == NormIdle /\ ValidIdle

\* no batch: one session on its own
BatchIdle ==
    /\ all_data = <<>>
    /\ seed_idx = 0
    /\ disk0 = disk[json_file]
    /\ batch_new = 0

Init == InitSession /\ PureIdle /\ BatchIdle

----------------------------------------------------------------------------
(* Construction: WebScraper.__init__ and the Crawler.__init__ it ends in *)

NewSession(s, status, rules, mp) ==
    /\ pc = "new"
    /\ ~load_raises(disk)
    /\ start_url' = s
    /\ domain' = urlparse(s).netloc
    /\ data' = load_existing_data(disk)
    /\ loaded_len' = Len(load_existing_data(disk))
    /\ page_count' = 0
    /\ scraper_skipped' = 0
    /\ data_lock' = "free"
    /\ visited' = {normalize_url(s)}
    /\ queue' = <<normalize_url(s)>>
    /\ robots' = init_robots_parser(status, rules)
    /\ robots_status' = status
    /\ skipped_duplicates' = 0
    /\ pages_crawled' = 0
    /\ max_pages' = mp
    /\ json_before' = disk[json_file]
    /\ pc' = "run"
    /\ UNCHANGED <<disk, processed_urls, timed_out, save_ret, attempt, cur_url,
                   fetch_result, emitted, dequeued, save_status, lateHistory,
                   pureVars, batchVars>>

Construct ==
    \E s \in StartUrls, status \in {"200", "non200", "neterror"},
       rules \in RobotsFiles, mp \in MaxPagesChoices :
        /\ (status # "200" => rules = <<>>)
        /\ NewSession(s, status, rules, mp)

\* load_existing_data raises and the exception leaves WebScraper.__init__: no
\* session is made
ConstructFails ==
    /\ pc = "new"
    /\ load_raises(disk)
    /\ pc' = "raised"
    /\ UNCHANGED <<disk, scraperVars, crawlerVars, historyVars, pureVars, batchVars>>

\* the session as WebScraper.__init__ makes it, max_pages left at its
\* default, on a site whose robots.txt has no rules
ConstructDefault ==
    \E s \in StartUrls : NewSession(s, "200", <<>>, DefaultMaxPages)

----------------------------------------------------------------------------
(* Crawler.crawl, the generator run() iterates over *)

\* a loop condition that ignores the page budget
crawl_guard_nobudget(q, n, mp) == q # <<>>

\* while self.queue and self.pages_crawled < self.max_pages
crawl_guard(q, n, mp) == q # <<>> /\ n < mp

\* the loop head, the condition true: pop the next URL
CrawlDequeue ==
    /\ pc = "crawl_loop"
    /\ crawl_guard(queue, pages_crawled, max_pages)
    /\ cur_url' = Head(queue)
    /\ queue' = Tail(queue)
    /\ visited' = visited \cup {normalize_url(Head(queue))}
    /\ dequeued' = Append(dequeued, Head(queue))
    /\ attempt' = 0
    /\ pc' = "fetch"
    /\ UNCHANGED <<disk, scraperVars, pages_crawled, skipped_duplicates, robots,
                   max_pages, fetch_result, robots_status, emitted, loaded_len, lateHistory,
                   json_before, save_status, pureVars, batchVars>>

\* the loop head, the condition false: the generator ends, and with it run's
\* for loop
CrawlDone ==
    /\ pc = "crawl_loop"
    /\ ~crawl_guard(queue, pages_crawled, max_pages)
    /\ pc' = "finally"
    /\ UNCHANGED <<disk, scraperVars, crawlerVars, historyVars, pureVars, batchVars>>

\* an attempt succeeds: the links are extracted and queued, the page counted
\* and yielded
FetchOk(page) ==
    /\ pc = "fetch"
    /\ \E gl \in {get_links(cur_url, page.links,
                              [links |-> <<>>, visited |-> visited,
                               skipped |-> skipped_duplicates],
                              domain, robots)} :
        \E en \in {enqueue_links(gl.links,
                                 [queue |-> queue, visited |-> gl.visited,
                                  skipped |-> gl.skipped])} :
          /\ queue' = en.queue
          /\ visited' = en.visited
          /\ skipped_duplicates' = en.skipped
    /\ pages_crawled' = pages_crawled + 1
    /\ fetch_result' = [url |-> cur_url, has |-> TRUE, page |-> page]
    /\ emitted' = Append(emitted, [url |-> cur_url, ok |-> TRUE, attempts |-> attempt + 1])
    /\ pc' = "consume"
    /\ UNCHANGED <<disk, scraperVars, robots, max_pages, attempt, cur_url,
                   robots_status, dequeued, loaded_len, lateHistory, json_before, save_status,
                   pureVars, batchVars>>

\* a test that lets one more attempt pass
late_attempt(a) == a = retries

\* a test that takes the first attempt for the last
first_attempt(a) == a = 0

\* if attempt == retries - 1
last_attempt(a) == a = retries - 1

\* an attempt raises RequestException and another one follows
FetchRetry ==
    /\ pc = "fetch"
    /\ ~last_attempt(attempt)
    /\ attempt' = attempt + 1
    /\ UNCHANGED <<disk, pc, scraperVars, visited, queue, pages_crawled,
                   skipped_duplicates, robots, max_pages, cur_url, fetch_result,
                   historyVars, pureVars, batchVars>>

\* the last attempt raises RequestException: the failure marker is yielded
FetchGiveUp ==
    /\ pc = "fetch"
    /\ last_attempt(attempt)
    /\ fetch_result' = [url |-> cur_url, has |-> FALSE, page |-> NoPage]
    /\ emitted' = Append(emitted, [url |-> cur_url, ok |-> FALSE, attempts |-> attempt + 1])
    /\ pc' = "consume"
    /\ UNCHANGED <<disk, scraperVars, visited, queue, pages_crawled,
                   skipped_duplicates, robots, max_pages, attempt, cur_url,
                   robots_status, dequeued, loaded_len, lateHistory, json_before, save_status,
                   pureVars, batchVars>>

----------------------------------------------------------------------------
(* WebScraper.run *)

RunStart ==
    /\ pc = "run"
    /\ processed_urls' = {}
    /\ timed_out' = FALSE
    /\ pc' = "crawl_loop"
    /\ UNCHANGED <<disk, start_url, domain, data, page_count, scraper_skipped,
                   data_lock, save_ret, crawlerVars, historyVars, pureVars, batchVars>>

\* a test that finds no URL processed
never_processed(url, processed) == FALSE

\* if url in processed_urls
already_processed(url, processed) == url \in processed

\* a test that never finds the timeout exceeded
never_exceeds(late) == FALSE

\* if elapsed_time > self.timeout
exceeds_timeout(late) == late

\* the body of run's for loop for the FetchResult just yielded; late says
\* whether the timeout has passed by now, got what download_image returns
Consume(late, got) ==
    /\ pc = "consume"
    /\ timed_out' = late
    /\ IF exceeds_timeout(late) \/ already_processed(fetch_result.url, processed_urls)
       THEN UNCHANGED <<downloads, scraped>>
       ELSE /\ scraped' = Append(scraped, fetch_result.url)
            /\ downloads' = downloads \cup download_calls(fetch_result, domain)
    /\ IF exceeds_timeout(late)
       THEN /\ pc' = "finally"
            /\ UNCHANGED <<data, page_count, scraper_skipped, data_lock,
                           processed_urls, save_ret, save_status>>
       ELSE IF already_processed(fetch_result.url, processed_urls)
       THEN /\ scraper_skipped' = scraper_skipped + 1
            /\ pc' = "crawl_loop"
            /\ UNCHANGED <<data, page_count, data_lock, processed_urls, save_ret,
                           save_status>>
       ELSE \E page_data \in {scrape_page(fetch_result, got, domain)} :
               /\ processed_urls' = processed_urls \cup {fetch_result.url}
               /\ IF page_data.some
                  THEN /\ data_lock = "free"
                       /\ data_lock' = "held"
                       /\ data' = Append(data, page_data.rec)
                       /\ page_count' = page_count + 1
                       /\ save_ret' = "loop"
                       /\ save_status' = "none"
                       /\ pc' = "save_entry"
                       /\ UNCHANGED scraper_skipped
                  ELSE /\ pc' = "crawl_loop"
                       /\ UNCHANGED <<data, page_count, scraper_skipped,
                                      data_lock, save_ret, save_status>>
    /\ UNCHANGED <<disk, start_url, domain, crawlerVars, robots_status, emitted,
                   dequeued, loaded_len, signal, saved_len, json_before, pureVars, batchVars>>

ConsumeResult ==
    \E late \in BOOLEAN :
        /\ (timed_out => late)
        /\ \E got \in [1..Len(fetch_result.page.body.imgs) ->
                          UNION {DownloadResults(urljoin(fetch_result.url, fetch_result.page.body.imgs[i])) :
                                 i \in 1..Len(fetch_result.page.body.imgs)}] :
              /\ \A i \in 1..Len(fetch_result.page.body.imgs) :
                    got[i] \in DownloadResults(urljoin(fetch_result.url, fetch_result.page.body.imgs[i]))
              /\ Consume(late, got)

\* the finally clause of run: the last save_to_json
Finally ==
    /\ pc = "finally"
    /\ save_ret' = "finally"
    /\ pc' = "save_entry"
    /\ UNCHANGED <<disk, start_url, domain, data, page_count, scraper_skipped,
                   data_lock, processed_urls, timed_out, crawlerVars, historyVars,
                   pureVars, batchVars>>

----------------------------------------------------------------------------
(* WebScraper.save_to_json *)

\* where control is once save_to_json has returned: back in the loop of run
\* (whose "with self.data_lock" block then ends), or past run's finally clause
\* (the save of the KeyboardInterrupt handler is followed by the finally
\* clause; a finally clause entered with an exception in flight re-raises it)
AfterSave ==
    IF save_ret = "loop" THEN "crawl_loop"
    ELSE IF save_ret = "interrupt" THEN "finally"
    ELSE IF save_ret = "finally_raise" THEN "raised"
    ELSE "returned"

\* where control is once an exception has left save_to_json: run's "except
\* Exception" and then its finally clause, or out of run
AfterSaveRaise ==
    IF save_ret = "loop" THEN "finally"
    ELSE IF save_ret = "interrupt" THEN "finally_raise"
    ELSE "raised"

\* os.replace(src, dst)
os_replace(fs, src, dst) ==
    IF src = dst THEN fs ELSE [fs EXCEPT ![dst] = fs[src], ![src] = Absent]

\* the lengths at which a write is observed before it is complete
PartialLens(n) == {k \in 1..(n - 1) : k = 1 \/ k = n \div 2}

\* "if not self.data: return"
SaveEntry ==
    /\ pc = "save_entry"
    /\ json_before' = disk[json_file]
    /\ saved_len' = Len(data)
    /\ IF data = <<>>
       THEN /\ save_status' = "empty"
            /\ data_lock' = "free"
            /\ pc' = AfterSave
       ELSE /\ save_status' = "none"
            /\ pc' = "save_lock"
            /\ UNCHANGED data_lock
    /\ UNCHANGED <<disk, start_url, domain, data, page_count, scraper_skipped,
                   processed_urls, timed_out, save_ret, crawlerVars,
                   robots_status, emitted, dequeued, loaded_len, downloads,
                   scraped, signal, pureVars, batchVars>>

\* "with self.data_lock:" and the free-space check under it; low says whether
\* less than 1MB is free
SaveAcquire(low) ==
    /\ pc = "save_lock"
    /\ data_lock = "free"
    /\ IF low
       THEN /\ save_status' = "lowspace"
            /\ data_lock' = "free"
            /\ pc' = AfterSave
       ELSE /\ data_lock' = "held"
            /\ pc' = "save_open"
            /\ UNCHANGED save_status
    /\ UNCHANGED <<disk, start_url, domain, data, page_count, scraper_skipped,
                   processed_urls, timed_out, save_ret, crawlerVars,
                   robots_status, emitted, dequeued, loaded_len, lateHistory, json_before,
                   pureVars, batchVars>>

SaveLock == \E low \in BOOLEAN : SaveAcquire(low)

\* open(temp_file, 'w'): the file exists and is empty
SaveOpen ==
    /\ pc = "save_open"
    /\ disk' = [disk EXCEPT ![temp_file] = FileOf(<<>>)]
    /\ pc' = "save_write"
    /\ UNCHANGED <<scraperVars, crawlerVars, historyVars, pureVars, batchVars>>

\* json.dump under way: a part of the text is in the file
SaveWritePart ==
    /\ pc = "save_write"
    /\ \E k \in PartialLens(Len(json_dump(data))) :
          disk' = [disk EXCEPT ![temp_file] = FileOf(SubSeq(json_dump(data), 1, k))]
    /\ pc' = "save_write_rest"
    /\ UNCHANGED <<scraperVars, crawlerVars, historyVars, pureVars, batchVars>>

\* json.dump completes and the file is closed
SaveWriteRest ==
    /\ pc = "save_write_rest"
    /\ disk' = [disk EXCEPT ![temp_file] = FileOf(json_dump(data))]
    /\ pc' = "save_replace"
    /\ UNCHANGED <<scraperVars, crawlerVars, historyVars, pureVars, batchVars>>

\* os.replace(temp_file, self.json_file), then the "with" block ends and the
\* loop breaks
SaveReplace ==
    /\ pc = "save_replace"
    /\ disk' = os_replace(disk, temp_file, json_file)
    /\ save_status' = "written"
    /\ data_lock' = "free"
    /\ pc' = AfterSave
    /\ UNCHANGED <<start_url, domain, data, page_count, scraper_skipped,
                   processed_urls, timed_out, save_ret, crawlerVars,
                   robots_status, emitted, dequeued, loaded_len, lateHistory, json_before,
                   pureVars, batchVars>>

\* open, json.dump or os.replace raises IOError/OSError: the "with" blocks
\* end, and naming json.JSONEncodeError in the except clause raises
\* AttributeError (the json module has no such name), which leaves
\* save_to_json
SaveIOError ==
    /\ pc \in {"save_open", "save_write", "save_write_rest", "save_replace"}
    /\ save_status' = "error"
    /\ data_lock' = "free"
    /\ pc' = AfterSaveRaise
    /\ UNCHANGED <<disk, start_url, domain, data, page_count, scraper_skipped,
                   processed_urls, timed_out, save_ret, crawlerVars,
                   robots_status, emitted, dequeued, loaded_len, lateHistory, json_before,
                   pureVars, batchVars>>

----------------------------------------------------------------------------
(* Exceptions in run's loop *)

\* where the control flow is when an exception can reach it inside run's
\* for loop: in the crawler, in the loop body, or in the save_to_json the
\* loop body calls
InRunLoop ==
    \/ pc \in {"crawl_loop", "fetch", "consume"}
    \/ (save_ret = "loop" /\ pc \in {"save_entry", "save_lock"})

\* a run without except clauses: the exception leaves it
handler_none(exc) == "raised"

\* the except clauses of run: KeyboardInterrupt has its handler, any other
\* Exception is logged and the finally clause follows
handler_of(exc) ==
    IF exc = "KeyboardInterrupt" THEN "except_interrupt" ELSE "finally"

\* the exception run's except clauses see when exc is raised at pc: inside
\* the try of save_to_json the except clause there is evaluated first and
\* its json.JSONEncodeError raises AttributeError in place of exc
SeenByRun(exc) == IF pc = "save_lock" THEN "AttributeError" ELSE exc

\* Ctrl-C while run is in its loop; the "with" blocks it leaves release
\* data_lock
KeyboardInterrupt ==
    /\ InRunLoop
    /\ signal = "none"
    /\ signal' = "KeyboardInterrupt"
    /\ data_lock' = "free"
    /\ pc' = handler_of(SeenByRun("KeyboardInterrupt"))
    /\ UNCHANGED <<disk, start_url, domain, data, page_count, scraper_skipped,
                   processed_urls, timed_out, save_ret, crawlerVars,
                   robots_status, emitted, dequeued, loaded_len, json_before,
                   save_status, downloads, scraped, saved_len, pureVars, batchVars>>

\* an exception other than RequestException leaves the crawler, or one
\* leaves the loop body
UnexpectedException ==
    /\ pc \in {"crawl_loop", "fetch", "consume"}
    /\ signal = "none"
    /\ signal' = "Exception"
    /\ pc' = handler_of("Exception")
    /\ UNCHANGED <<disk, scraperVars, crawlerVars, robots_status, emitted,
                   dequeued, loaded_len, json_before, save_status, downloads,
                   scraped, saved_len, pureVars, batchVars>>

\* the handler of KeyboardInterrupt: save_to_json()
ExceptInterrupt ==
    /\ pc = "except_interrupt"
    /\ save_ret' = "interrupt"
    /\ pc' = "save_entry"
    /\ UNCHANGED <<disk, start_url, domain, data, page_count, scraper_skipped,
                   data_lock, processed_urls, timed_out, crawlerVars, historyVars,
                   pureVars, batchVars>>

\* the finally clause entered with the exception of the handler's save in
\* flight: save_to_json(), then the exception leaves run
FinallyRaise ==
    /\ pc = "finally_raise"
    /\ save_ret' = "finally_raise"
    /\ pc' = "save_entry"
    /\ UNCHANGED <<disk, start_url, domain, data, page_count, scraper_skipped,
                   data_lock, processed_urls, timed_out, crawlerVars, historyVars,
                   pureVars, batchVars>>

----------------------------------------------------------------------------
(* The process is killed *)

Running == pc \notin {"new", "returned", "raised", "crashed", "exit", "exit_raised"}

Crash ==
    /\ Running
    /\ pc' = "crashed"
    /\ UNCHANGED <<disk, scraperVars, crawlerVars, historyVars, pureVars, batchVars>>

----------------------------------------------------------------------------
(* The session *)

\* the steps of a constructed session
Proceed ==
    \/ RunStart
    \/ CrawlDequeue
    \/ CrawlDone
    \/ \E page \in Pages : FetchOk(page)
    \/ FetchRetry
    \/ FetchGiveUp
    \/ ConsumeResult
    \/ Finally
    \/ SaveEntry
    \/ SaveLock
    \/ SaveOpen
    \/ SaveWritePart
    \/ SaveWriteRest
    \/ SaveReplace
    \/ SaveIOError

Step == Construct \/ ConstructFails \/ Proceed

Next == Step \/ Crash

Spec == Init /\ [][Next]_vars

----------------------------------------------------------------------------
(* SpecStream: run on its own, iterating over an arbitrary FetchResult     *)
(* stream in place of the crawler's                                        *)

\* the FetchResults of the streams: failure markers and fetched pages
StreamResults ==
    {[url |-> u, has |-> FALSE, page |-> NoPage] : u \in {UrlA, UrlB}}
    \cup {[url |-> u, has |-> TRUE, page |-> pg] :
            u \in {UrlA, UrlB}, pg \in {p \in Pages : p.links = <<>>}}

\* the generator yields fr
StreamYield(fr) ==
    /\ pc = "crawl_loop"
    /\ Len(emitted) < MaxStream
    /\ fetch_result' = fr
    /\ emitted' = Append(emitted, [url |-> fr.url, ok |-> fr.has,
                                   attempts |-> IF fr.has THEN 1 ELSE retries])
    /\ pc' = "consume"
    /\ UNCHANGED <<disk, scraperVars, visited, queue, pages_crawled,
                   skipped_duplicates, robots, max_pages, attempt, cur_url,
                   robots_status, dequeued, loaded_len, json_before, save_status,
                   lateHistory, pureVars, batchVars>>

\* the generator is exhausted
StreamEnd ==
    /\ pc = "crawl_loop"
    /\ pc' = "finally"
    /\ UNCHANGED <<disk, scraperVars, crawlerVars, historyVars, pureVars, batchVars>>

NextStream ==
    \/ ConstructDefault
    \/ ConstructFails
    \/ RunStart
    \/ \E fr \in StreamResults : StreamYield(fr)
    \/ StreamEnd
    \/ ConsumeResult
    \/ Finally
    \/ SaveEntry
    \/ SaveLock
    \/ SaveOpen
    \/ SaveWritePart
    \/ SaveWriteRest
    \/ SaveReplace
    \/ SaveIOError
    \/ Crash

SpecStream == Init /\ [][NextStream]_vars

\* the session with exceptions reaching run's loop
NextSignals ==
    \/ ConstructDefault
    \/ ConstructFails
    \/ Proceed
    \/ Crash
    \/ KeyboardInterrupt
    \/ UnexpectedException
    \/ ExceptInterrupt
    \/ FinallyRaise

SpecSignals == Init /\ [][NextSignals]_vars

----------------------------------------------------------------------------
(* SpecBatch: the entry point main_coventry.py, one session per seed link  *)
(* and combine_data at the end                                             *)

\* the seed links of the batch
seed_links == <<UrlA, UrlB>>

InitBatch ==
    /\ InitSession
    /\ PureIdle
    /\ all_data = <<>>
    /\ seed_idx = 1
    /\ disk0 = disk[json_file]
    /\ batch_new = 0

\* scraper = WebScraper(start_url=url, ...)
ConstructSeed ==
    /\ seed_idx \in 1..Len(seed_links)
    /\ NewSession(seed_links[seed_idx], "200", <<>>, DefaultMaxPages)

\* the session of a seed link is over: after run has returned,
\* all_data.extend(scraper.data); after an exception (of WebScraper(...) or
\* of run) "except Exception" reports it; then the loop turns to the next
\* seed link, and a new session begins with everything but the files afresh
SessionOver ==
    /\ pc \in {"returned", "raised"}
    /\ seed_idx \in 1..Len(seed_links)
    /\ all_data' = IF pc = "returned" THEN all_data \o data ELSE all_data
    /\ batch_new' = batch_new + (Len(data) - loaded_len)
    /\ seed_idx' = seed_idx + 1
    /\ pc' = IF seed_idx < Len(seed_links) THEN "new" ELSE "main_done"
    /\ start_url' = NoUrl
    /\ domain' = ""
    /\ data' = <<>>
    /\ page_count' = 0
    /\ scraper_skipped' = 0
    /\ data_lock' = "free"
    /\ processed_urls' = {}
    /\ timed_out' = FALSE
    /\ save_ret' = "none"
    /\ visited' = {}
    /\ queue' = <<>>
    /\ pages_crawled' = 0
    /\ skipped_duplicates' = 0
    /\ robots' = [last_checked |-> FALSE, rules |-> <<>>]
    /\ max_pages' = DefaultMaxPages
    /\ attempt' = 0
    /\ cur_url' = NoUrl
    /\ fetch_result' = NoResult
    /\ robots_status' = "none"
    /\ emitted' = <<>>
    /\ dequeued' = <<>>
    /\ loaded_len' = 0
    /\ json_before' = disk[json_file]
    /\ save_status' = "none"
    /\ downloads' = {}
    /\ scraped' = <<>>
    /\ signal' = "none"
    /\ saved_len' = -1
    /\ UNCHANGED <<disk, disk0, pureVars>>

\* "if all_data: combine_data(all_data)", else the process ends
MainDone ==
    /\ pc = "main_done"
    /\ pc' = IF all_data # <<>> THEN "combine_open" ELSE "exit"
    /\ UNCHANGED <<disk, scraperVars, crawlerVars, historyVars, pureVars, batchVars>>

\* combine_data: open(filename, 'w') on the durable file itself, which is
\* empty from then on
CombineOpen ==
    /\ pc = "combine_open"
    /\ disk' = [disk EXCEPT ![json_file] = FileOf(<<>>)]
    /\ pc' = "combine_write"
    /\ UNCHANGED <<scraperVars, crawlerVars, historyVars, pureVars, batchVars>>

\* json.dump(all_data, f, ...) under way: a part of the text is in the file
CombineWritePart ==
    /\ pc = "combine_write"
    /\ \E k \in PartialLens(Len(json_dump(all_data))) :
          disk' = [disk EXCEPT ![json_file] = FileOf(SubSeq(json_dump(all_data), 1, k))]
    /\ pc' = "combine_write_rest"
    /\ UNCHANGED <<scraperVars, crawlerVars, historyVars, pureVars, batchVars>>

\* json.dump completes, the file is closed and the process ends
CombineWriteRest ==
    /\ pc = "combine_write_rest"
    /\ disk' = [disk EXCEPT ![json_file] = FileOf(json_dump(all_data))]
    /\ pc' = "exit"
    /\ UNCHANGED <<scraperVars, crawlerVars, historyVars, pureVars, batchVars>>

\* open or json.dump raises IOError: naming json.JSONEncodeError in the
\* except clause raises AttributeError, which nothing catches: the process
\* ends with a traceback
CombineIOError ==
    /\ pc \in {"combine_open", "combine_write", "combine_write_rest"}
    /\ pc' = "exit_raised"
    /\ UNCHANGED <<disk, scraperVars, crawlerVars, historyVars, pureVars, batchVars>>

NextBatch ==
    \/ ConstructSeed
    \/ ConstructFails
    \/ Proceed
    \/ SessionOver
    \/ MainDone
    \/ CombineOpen
    \/ CombineWritePart
    \/ CombineWriteRest
    \/ CombineIOError
    \/ Crash

SpecBatch == InitBatch /\ [][NextBatch]_vars

----------------------------------------------------------------------------
(* SpecNormalize: normalize_url applied to every URL of the bounded set *)

TailChars == {"/", "a", ";", "?", "#"}

RECURSIVE SeqsUpTo(_, _)
SeqsUpTo(S, n) ==
    IF n = 0 THEN {<<>>}
    ELSE With(SeqsUpTo(S, n - 1), LAMBDA shorter :
         shorter \cup {Append(s, c) : s \in {x \in shorter : Len(x) = n - 1}, c \in S})

\* the tails a URL string can have after its netloc
Tails == {t \in SeqsUpTo(TailChars, MaxTail) : t = <<>> \/ t[1] \in {"/", "?", "#"}}

NormInputs == {<<"https", Host>> \o t : t \in Tails}

InitNormalize ==
    /\ InitSession
    /\ disk[json_file] = Absent
    /\ ValidIdle
    /\ BatchIdle
    /\ nu_pc = "start"
    /\ nu_in \in NormInputs
    /\ nu_once = NoUrl
    /\ nu_twice = NoUrl
    /\ nu_variant = NoUrl
    /\ nu_variant_once = NoUrl

NormalizeOnce ==
    /\ nu_pc = "start"
    /\ nu_once' = normalize_url(nu_in)
    /\ nu_pc' = "once"
    /\ UNCHANGED <<nu_in, nu_twice, nu_variant, nu_variant_once, validVars,
                   sessionVars>>

NormalizeTwice ==
    /\ nu_pc = "once"
    /\ nu_twice' = normalize_url(nu_once)
    /\ nu_pc' = "twice"
    /\ UNCHANGED <<nu_in, nu_once, nu_variant, nu_variant_once, validVars,
                   sessionVars>>

\* the end of the path in the text of u: the index of the first "?" or "#",
\* or one past the last character
PathEnd(u) ==
    With({i \in 3..Len(u) : u[i] \in {"?", "#"}}, LAMBDA stops :
    IF stops = {} THEN Len(u) + 1 ELSE CHOOSE i \in stops : \A j \in stops : i <= j)

\* u with one more "/" at the end of its path
WithTrailingSlash(u) ==
    SubSeq(u, 1, PathEnd(u) - 1) \o <<"/">> \o SubSeq(u, PathEnd(u), Len(u))

\* u without its fragment
WithoutFragment(u) ==
    With(Find(u, "#", 3), LAMBDA i : IF i = 0 THEN u ELSE Before(u, i))

\* the URLs that differ from u only by the fragment or by a trailing slash
Variants(u) ==
    {WithTrailingSlash(u), WithoutFragment(u), WithoutFragment(u) \o <<"#", "a">>}

\* normalize_url applied to a variant of the URL
NormalizeVariant(v) ==
    /\ nu_pc = "once"
    /\ nu_variant' = v
    /\ nu_variant_once' = normalize_url(v)
    /\ nu_pc' = "variant"
    /\ UNCHANGED <<nu_in, nu_once, nu_twice, validVars, sessionVars>>

NextNormalize ==
    \/ NormalizeOnce
    \/ NormalizeTwice
    \/ \E v \in Variants(nu_in) : NormalizeVariant(v)

SpecNormalize == InitNormalize /\ [][NextNormalize]_vars

\* C10: normalize_url is idempotent: normalizing a normalized URL returns it
\* unchanged, for every URL, ";params", query, fragment and trailing slashes
\* included.
C10_Idempotent == nu_pc = "twice" => nu_twice = nu_once

\* C11: two URLs that differ only by their fragment or by a trailing slash on
\* the path have the same normalize_url result (and so are one page to
\* VisitedSet).
C11_SameCanonicalForm == nu_pc = "variant" => nu_variant_once = nu_once

----------------------------------------------------------------------------
(* SpecValid: is_valid_url applied to every URL and domain of a bounded set *)

ValidSchemes == {"http", "https", "ftp", "mailto"}

ValidNetlocs == {Host, "other.org", "[::1]", "x[::1]y", "x[::1]", "[::1", "a[b]"}

ValidTails == {<<>>, <<"/", "a">>, <<"/", "a", ";", "a">>, <<"?", "a">>, <<"/", "#", "a">>}

ValidInputs == {<<sch, n>> \o t : sch \in ValidSchemes, n \in ValidNetlocs, t \in ValidTails}

\* the domains of a session: the netloc of a start URL that urlparse accepts
ValidDomains == {Host, "[::1]", "x[::1]y", "x[::1]"}

InitValid ==
    /\ InitSession
    /\ disk[json_file] = Absent
    /\ NormIdle
    /\ BatchIdle
    /\ iv_pc = "start"
    /\ iv_url \in ValidInputs
    /\ iv_domain \in ValidDomains
    /\ iv_result = NoOutcome

CallIsValid ==
    /\ iv_pc = "start"
    /\ iv_result' = is_valid_url_result(iv_url, iv_domain)
    /\ iv_pc' = "done"
    /\ UNCHANGED <<iv_url, iv_domain, normVars, sessionVars>>

NextValid == CallIsValid

SpecValid == InitValid /\ [][NextValid]_vars

\* C12: is_valid_url never raises; it returns false for every URL whose
\* scheme is not http/https or whose host is not the domain, and so returns
\* true only for an http/https URL on the domain.
C12_IsValidUrl ==
    iv_pc = "done" =>
        /\ ~iv_result.raised
        /\ (iv_url[1] \notin {"http", "https"} \/ iv_url[2] # iv_domain) => ~iv_result.value
        /\ iv_result.value => (iv_url[1] \in {"http", "https"} /\ iv_url[2] = iv_domain)

\* an http URL on the domain was accepted
C12_Witness ==
    /\ iv_pc = "done"
    /\ iv_result.value
    /\ iv_url[1] = "http"
    /\ iv_url[2] = iv_domain

----------------------------------------------------------------------------
(* Properties of a session *)

\* the hrefs of the page just yielded
YieldedLinks == fetch_result.page.links

\* an extracted link the crawl step has to queue, vis being VisitedSet before
\* the step: not a pseudo-scheme, http/https on the session domain, not yet
\* visited, and allowed by the robots policy
Eligible(href, vis) ==
    /\ ~IsPseudoHref(href)
    /\ is_valid_url(urljoin(fetch_result.url, href), domain)
    /\ normalize_url(urljoin(fetch_result.url, href)) \notin vis
    /\ can_fetch(robots, urljoin(fetch_result.url, href))

InQueue(u) == \E j \in 1..Len(queue) : queue[j] = u

\* C1: after the first crawl step, whose fetch succeeded, every eligible link
\* of the page is in the queue and its canonical form in VisitedSet; with
\* seed /a and links /a#f and /b, VisitedSet is {/a, /b} and the queue is
\* exactly /b.
C1_LinksEnqueued ==
    (pc = "consume" /\ fetch_result.has /\ Len(emitted) = 1) =>
        /\ \A i \in 1..Len(YieldedLinks) :
              Eligible(YieldedLinks[i], {normalize_url(start_url)}) =>
                  /\ normalize_url(urljoin(fetch_result.url, YieldedLinks[i])) \in visited
                  /\ InQueue(urljoin(fetch_result.url, YieldedLinks[i]))
        /\ (start_url = UrlA /\ YieldedLinks = <<UrlAFrag, UrlB>> /\ can_fetch(robots, UrlB)) =>
              (visited = {UrlA, UrlB} /\ queue = <<UrlB>>)

\* the PageRecords run appended in this session
Appended == SubSeq(data, loaded_len + 1, Len(data))

\* the durable file holds the dataset, or the save was skipped for lack of
\* space or failed
PersistedOrSkipped ==
    \/ load_existing_data(disk) = data
    \/ save_status \in {"lowspace", "error"}

\* C2: a PageRecord that run appended is persisted at once: as long as the
\* durable file does not hold the dataset with that record (and the flush was
\* not skipped), the run is not at rest: its next step towards the file is
\* possible.
C2_PersistedAfterAppend ==
    (Running /\ Appended # <<>> /\ ~PersistedOrSkipped) => ENABLED Step

\* C3: run never blocks: as long as it has not ended a step of it is
\* possible, and it never waits for data_lock while data_lock is held (the
\* session has one control flow, so the holder is that flow itself).
C3_RunNeverBlocks ==
    Running => (ENABLED Step /\ ~(pc = "save_lock" /\ data_lock = "held"))

ProbeUrls == {UrlA, UrlAFrag, UrlB, UrlBSlash}

\* C4: when the robots.txt request failed or was answered with a status
\* other than 200, can_fetch is true for every URL.
C4_RobotsFallbackAllowsAll ==
    robots_status \in {"non200", "neterror"} =>
        \A u \in ProbeUrls : can_fetch(robots, u)

Canon(q) == [i \in 1..Len(q) |-> normalize_url(q[i])]

NoRepeat(q) == \A i, j \in 1..Len(q) : i # j => q[i] # q[j]

\* C5: no URL is queued whose canonical form is already in VisitedSet: no
\* canonical URL is in the queue twice, none is dequeued twice or queued
\* again after it was dequeued, and what a step appends to the queue was not
\* in VisitedSet before the step.
C5_NoDuplicateEnqueue ==
    /\ [](NoRepeat(Canon(dequeued \o queue)))
    /\ [][\A i \in (Len(queue) + 1)..Len(queue') :
             /\ normalize_url(queue'[i]) \notin visited
             /\ \A j \in 1..(i - 1) : normalize_url(queue'[j]) # normalize_url(queue'[i])]_vars

\* a page with links to visited URLs was processed: they were counted as
\* duplicates and not queued
C5_Witness ==
    /\ pc = "consume"
    /\ fetch_result.has
    /\ YieldedLinks = <<UrlBSlash, UrlA>>
    /\ skipped_duplicates > 0
    /\ dequeued = <<UrlA>>

FailureMarkers == {i \in 1..Len(emitted) : ~emitted[i].ok}

\* C6: a failure marker is yielded only after all 3 attempts failed and only
\* once per URL, no PageRecord is appended for its URL, and consuming it
\* leaves the dataset alone and returns to the crawl loop with the queue
\* intact (unless the timeout ends the run).
C6_FailureMarker ==
    /\ [](\A i \in FailureMarkers :
             /\ emitted[i].attempts = retries
             /\ \A j \in FailureMarkers : emitted[j].url = emitted[i].url => j = i
             /\ \A k \in 1..Len(Appended) : Appended[k].url # emitted[i].url)
    /\ [][(pc = "fetch" /\ attempt = retries - 1 /\ pc' = "consume" /\ ~fetch_result'.has) =>
             (Len(emitted') = Len(emitted) + 1 /\ fetch_result'.url = cur_url)]_vars
    /\ [][(pc = "consume" /\ ~fetch_result.has /\ pc' # "crashed") =>
             /\ data' = data
             /\ page_count' = page_count
             /\ queue' = queue
             /\ pc' = IF timed_out' THEN "finally" ELSE "crawl_loop"]_vars

\* a failure marker was consumed and the crawl loop goes on
C6_Witness ==
    /\ pc = "crawl_loop"
    /\ FailureMarkers # {}
    /\ processed_urls = {UrlA}
    /\ Appended = <<>>

\* C7: pages_crawled never exceeds max_pages and equals the number of
\* FetchResults yielded that are not failure markers.
C7_PagesCrawled ==
    /\ pages_crawled <= max_pages
    /\ pages_crawled = Cardinality({i \in 1..Len(emitted) : emitted[i].ok})

\* a session that used up its budget of one page has ended
C7_Witness ==
    /\ pc = "returned"
    /\ max_pages = 1
    /\ pages_crawled = 1
    /\ Len(emitted) = 1

\* C8: the durable file is what it was when the save began, or the complete
\* text of the dataset; neither a crash nor a failing write leaves it cut
\* short.
C8_DurableFileIntact ==
    \/ disk[json_file] = json_before
    \/ disk[json_file] = FileOf(json_dump(data))

\* the process was killed between the temp-file write and the replace
C8_Witness ==
    /\ pc = "crashed"
    /\ save_ret = "finally"
    /\ data # <<>>
    /\ disk[temp_file] = FileOf(json_dump(data))
    /\ disk[json_file] = json_before

\* C9: after save_to_json has written the dataset (or found it empty), a
\* fresh load_existing_data returns the same records in the same order.
C9_RoundTrip ==
    save_status \in {"written", "empty"} => load_existing_data(disk) = data

\* a dataset of two records was written and the run has ended
C9_Witness ==
    /\ pc = "returned"
    /\ save_status = "written"
    /\ Len(data) = 2
    /\ data[1] # data[2]

\* the netloc of a URL
NetlocOf(u) == u[2]

FinalPositions ==
    {"finally", "save_entry", "save_lock", "save_open", "save_write",
     "save_write_rest", "save_replace", "returned", "raised", "crashed"}

\* C14: once the timeout is found exceeded, no FetchResult is scraped (the
\* one at hand included), none is requested from the crawler, no PageRecord
\* is appended, and run is in its finally clause or the save it calls, which
\* does not wait for data_lock.
C14_TimeoutStops ==
    /\ [](timed_out =>
             /\ pc \in FinalPositions
             /\ (pc \in {"save_entry", "save_lock"} => save_ret = "finally")
             /\ (pc = "save_lock" => data_lock = "free"))
    /\ [][timed_out' =>
             /\ scraped' = scraped
             /\ processed_urls' = processed_urls
             /\ data' = data
             /\ emitted' = emitted
             /\ dequeued' = dequeued]_vars

\* the timeout was found exceeded at the first FetchResult, which was not
\* scraped, and the final save wrote the dataset
C14_Witness ==
    /\ timed_out
    /\ pc = "returned"
    /\ save_status = "written"
    /\ Len(emitted) = 1
    /\ emitted[1].ok
    /\ scraped = <<>>

\* C15: when a KeyboardInterrupt or another exception has reached run's
\* loop and run has ended, save_to_json was called with the dataset as it is,
\* every appended record included, and run returned; the one way it ends in
\* an exception is a save_to_json, of the handler or of the finally clause,
\* that failed on the storage.
C15_SavedOnException ==
    /\ []((signal # "none" /\ pc \in {"returned", "raised"}) =>
             /\ saved_len = Len(data)
             /\ (save_status \in {"written", "empty"} => load_existing_data(disk) = data)
             /\ (pc = "raised" => (save_status = "error" \/ save_ret = "finally_raise")))
    /\ [][signal # "none" => data' = data]_vars
    /\ [][(pc' = "finally_raise" /\ pc # "finally_raise") =>
             (pc # "crashed" /\ save_ret = "interrupt" /\ save_status' = "error")]_vars

\* Ctrl-C reached the run after it had appended a record, and the run ended
\* with the record in the durable file
C15_Witness ==
    /\ signal = "KeyboardInterrupt"
    /\ pc = "returned"
    /\ Appended # <<>>
    /\ save_status = "written"
    /\ load_existing_data(disk) = data

\* C16: a storage failure in save_to_json never leaves save_to_json as an
\* exception: the save ends logged and skipped, run's control flow goes on
\* where the call was made, and run does not end in an exception.
C16_StorageFailureContained ==
    save_status = "error" => pc \notin {"raised", "finally_raise"}

\* what the durable file makes of the dataset at start: the array it holds,
\* or nothing
LoadedOrEmpty(f) ==
    IF f.exists /\ json_load(f.bytes).ok THEN json_load(f.bytes).val ELSE <<>>

\* C17: whatever the durable file holds at start, the session is constructed:
\* with the array of the file if it holds a valid one, with an empty dataset
\* otherwise.
C17_LoadTolerant ==
    /\ (pc = "raised" => robots_status # "none")
    /\ (pc = "run" => data = LoadedOrEmpty(disk[json_file]))

\* C18: whatever stream run iterates over, no URL is given to scrape_page
\* twice and no two PageRecords of the run have the same URL; a FetchResult
\* whose URL was processed before is counted as a duplicate and skipped.
C18_ProcessedOnce ==
    /\ [](/\ NoRepeat(scraped)
          /\ NoRepeat([k \in 1..Len(Appended) |-> Appended[k].url])
          /\ processed_urls = {scraped[k] : k \in 1..Len(scraped)})
    /\ [][(/\ pc = "consume"
           /\ fetch_result.url \in processed_urls
           /\ ~timed_out'
           /\ pc' # "crashed") =>
             /\ scraped' = scraped
             /\ data' = data
             /\ scraper_skipped' = scraper_skipped + 1
             /\ pc' = "crawl_loop"]_vars

\* the stream held the same URL three times, as failure marker and as page;
\* the first was scraped, the others skipped
C18_Witness ==
    /\ Len(emitted) = 3
    /\ \A i \in 1..3 : emitted[i].url = UrlA
    /\ ~emitted[1].ok
    /\ emitted[2].ok
    /\ scraped = <<UrlA>>
    /\ scraper_skipped = 2

\* C19: the canonical form of every URL in the queue and of every URL
\* dequeued is in VisitedSet, and no step takes an element out of VisitedSet.
C19_QueueInVisited ==
    /\ [](\A i \in 1..Len(dequeued \o queue) :
             normalize_url((dequeued \o queue)[i]) \in visited)
    /\ [][visited \subseteq visited']_vars

FullyExtracted(r) ==
    /\ r.url # NoUrl
    /\ r.title # <<>>
    /\ r.content # <<>>

\* C21: once the session is constructed, every step leaves the dataset as it
\* is or appends one fully extracted PageRecord, that of the FetchResult at
\* hand, at its end, with page_count counting it; a failure marker, a
\* response that is not text/html and a page without text leave the dataset
\* and page_count as they are.
C21_AppendOnly ==
    /\ [][pc # "new" =>
             \/ (data' = data /\ page_count' = page_count)
             \/ /\ pc = "consume"
                /\ Len(data') = Len(data) + 1
                /\ SubSeq(data', 1, Len(data)) = data
                /\ FullyExtracted(data'[Len(data')])
                /\ data'[Len(data')].url = fetch_result.url
                /\ page_count' = page_count + 1]_vars
    /\ [][(/\ pc = "consume"
           /\ \/ ~fetch_result.has
              \/ ~fetch_result.page.body.html
              \/ fetch_result.page.body.text = <<>>) =>
             (data' = data /\ page_count' = page_count)]_vars
    /\ [](Len(data) = loaded_len + page_count)

\* a record was appended behind the two records loaded at startup
C21_Witness ==
    /\ loaded_len = 2
    /\ Len(data) = 3
    /\ data[1] = OldRecordB
    /\ data[2] = OldRecordA
    /\ data[3].url = UrlA
    /\ page_count = 1

\* C22: when combine_data has written the combined file, it holds as many
\* records as the durable file held before the batch plus the records the
\* sessions of the batch appended.
C22_CombinedCount ==
    (pc = "exit" /\ all_data # <<>>) =>
        /\ json_load(disk[json_file].bytes).ok
        /\ Len(json_load(disk[json_file].bytes).val) = Len(LoadedOrEmpty(disk0)) + batch_new

\* C23: at every point the process can be killed at, the durable file is
\* absent, or what it was when the process started, or the complete text of
\* a dataset; and a write failure in combine_data does not end the process
\* with an exception.
C23_NeverTruncated ==
    /\ \/ disk[json_file] = Absent
       \/ disk[json_file] = disk0
       \/ json_load(disk[json_file].bytes).ok
    /\ pc # "exit_raised"

====
